---------------------------- MODULE Spec2Model ----------------------------
(***************************************************************************)
(* A model of pyDIFRATE/tools/DRtools.py: sens_sign_check, avg_data,       *)
(* append_data, prod_mat, calc_prod and linear_ex.                         *)
(*                                                                         *)
(* Numbers are exact rationals <<n, d>> (d > 0, lowest terms), extended    *)
(* with the IEEE specials numpy produces on a division by zero:            *)
(* <<1, 0>> is +inf, <<-1, 0>> is -inf and <<0, 0>> is nan.  Rounding of   *)
(* binary floating point is not modelled.                                  *)
(*                                                                         *)
(* A numpy array is a sequence (of sequences, for a matrix); None is the   *)
(* empty sequence, no array of the model being empty.  A call that raises  *)
(* returns [raised |-> <exception name>], a call that returns gives        *)
(* [raised |-> "", val |-> <value>].                                       *)
(***************************************************************************)
EXTENDS Integers, Sequences, FiniteSets, TLC

VARIABLES op, args, ret, pc, loc

vars == <<op, args, ret, pc, loc>>

None == <<>>

Raise(e) == [raised |-> e, val |-> None]

Return(v) == [raised |-> "", val |-> v]

-----------------------------------------------------------------------------
(* Arithmetic of numpy float64 values, rounding aside *)

Abs(n) == IF n < 0 THEN -n ELSE n

Sgn(n) == IF n < 0 THEN -1 ELSE IF n > 0 THEN 1 ELSE 0

RECURSIVE GCD(_, _)
GCD(a, b) == IF b = 0 THEN a ELSE GCD(b, a % b)

Norm(n, d) ==
    IF d = 0 THEN <<Sgn(n), 0>>
    ELSE LET g == GCD(Abs(n), Abs(d))
         IN  <<(Sgn(d) * n) \div g, Abs(d) \div g>>

Q(n) == <<n, 1>>

NaN == <<0, 0>>

IsNaN(a) == a = NaN

IsFinite(a) == a[2] # 0

\* Products and sums cancel common factors first, which keeps the
\* intermediate numbers small
RMul(a, b) ==
    LET g == GCD(Abs(a[1]), b[2])
        h == GCD(Abs(b[1]), a[2])
    IN  IF g = 0 \/ h = 0 THEN Norm(a[1] * b[1], a[2] * b[2])
        ELSE Norm((a[1] \div g) * (b[1] \div h), (a[2] \div h) * (b[2] \div g))

RAdd(a, b) ==
    IF a[2] = 0 /\ b[2] = 0
    THEN (IF a = b THEN a ELSE NaN)
    ELSE IF a[2] = 0 \/ b[2] = 0
    THEN Norm(a[1] * b[2] + b[1] * a[2], 0)
    ELSE LET g == GCD(a[2], b[2])
         IN  Norm(a[1] * (b[2] \div g) + b[1] * (a[2] \div g),
                  (a[2] \div g) * b[2])

RNeg(a) == <<-a[1], a[2]>>

RSub(a, b) == RAdd(a, RNeg(b))

RDiv(a, b) == RMul(a, <<Sgn(b[1]) * b[2], Abs(b[1])>>)

RAbs(a) == <<Abs(a[1]), a[2]>>

\* a > b as numpy compares: FALSE whenever a nan takes part
RGt(a, b) ==
    IF IsNaN(a) \/ IsNaN(b) THEN FALSE
    ELSE IF a[2] = 0 /\ b[2] = 0 THEN a[1] > b[1]
    ELSE IF a[2] = 0 THEN a[1] > 0
    ELSE IF b[2] = 0 THEN b[1] < 0
    ELSE a[1] * b[2] > b[1] * a[2]

RLt(a, b) == RGt(b, a)

RGe(a, b) == ~IsNaN(a) /\ ~IsNaN(b) /\ ~RGt(b, a)

RLe(a, b) == RGe(b, a)

\* np.sign
RSign(a) == IF IsNaN(a) THEN NaN ELSE Q(Sgn(a[1]))

\* float -> int conversion (truncation towards zero) of a finite value
RTrunc(a) == Q(Sgn(a[1]) * (Abs(a[1]) \div a[2]))

RECURSIVE RSum(_)
RSum(s) == IF s = <<>> THEN Q(0) ELSE RAdd(Head(s), RSum(Tail(s)))

RECURSIVE IProd(_)
IProd(s) == IF s = <<>> THEN 1 ELSE Head(s) * IProd(Tail(s))

Range(s) == {s[i] : i \in DOMAIN s}

\* The shape of a matrix (a non-empty sequence of rows of one length)
Shape(m) == <<Len(m), Len(m[1])>>

\* m.reshape(n) of a matrix in C order
Flatten(m) ==
    LET nc == Len(m[1])
    IN  [p \in 1..(Len(m) * nc) |-> m[((p - 1) \div nc) + 1][((p - 1) % nc) + 1]]

\* v.reshape(SZ) of a vector of SZ[1]*SZ[2] elements
Unflatten(v, SZ) ==
    [e \in 1..SZ[1] |-> [d \in 1..SZ[2] |-> v[(e - 1) * SZ[2] + d]]]

-----------------------------------------------------------------------------
(* Response Sets and sensitivity profiles *)

\* The fields append_data combines
flds == <<"R", "R_std", "R_u", "R_l", "Rc", "Rin", "Rin_std", "S2", "S2in",
          "S2in_std", "S2c">>

\* A sensitivity profile: sens._rho_eff(mdl_num=None)[0] is rho, a matrix
\* numDetectors x numSamples, and sens.tc()[[0,-1]] is tc.
MkSens(rho, tc) == [rho |-> rho, tc |-> tc]

\* A data object holding only R, R_std, label and sens
MkData(R, R_std, label, sens) ==
    [R |-> R, R_std |-> R_std, R_u |-> None, R_l |-> None, Rc |-> None,
     Rin |-> None, Rin_std |-> None, S2 |-> None, S2in |-> None,
     S2in_std |-> None, S2c |-> None, label |-> label, sens |-> sens]

-----------------------------------------------------------------------------
(* sens_sign_check *)

\* The tolerance 1e-3 of the unit-magnitude check
Tol == <<1, 1000>>

\* np.ones(n)
Ones(n) == [d \in 1..n |-> Q(1)]

\* m[:, ::step] for step >= 1
StrideCols(m, step) ==
    [d \in 1..Len(m) |->
        [j \in 1..((Len(m[d]) + step - 1) \div step) |-> m[d][1 + (j - 1) * step]]]

\* How often v occurs in row
Count(row, v) == Cardinality({j \in DOMAIN row : row[j] = v})

\* The smallest of the rationals of a non-empty finite set
RMin(S) == CHOOSE v \in S : \A w \in S : ~RGt(v, w)

\* scipy.stats.mode of one row of sign values, for the three behaviours the
\* scipy releases have:
\*   "loop"      (scipy < 1.7)  counts by a == score, so that a nan is never
\*               counted and a row of nans alone gives the initial value 0;
\*   "unique"    (scipy 1.7, 1.8) counts the nans as one value, sorted last;
\*   "propagate" (scipy >= 1.9) gives nan for a row that holds a nan.
\* Of several most frequent values the smallest is returned.
ModeRow(row, build) ==
    LET vals   == Range(row)
        finite == {v \in vals : ~IsNaN(v)}
        best(S) == RMin({v \in S : \A w \in S : Count(row, v) >= Count(row, w)})
    IN  IF build = "propagate"
        THEN (IF NaN \in vals THEN NaN ELSE best(finite))
        ELSE IF build = "unique"
        THEN (IF NaN \in vals /\ \A w \in finite : Count(row, NaN) > Count(row, w)
              THEN NaN ELSE best(finite))
        ELSE (IF finite = {} THEN Q(0) ELSE best(finite))

\* The sign vector of one candidate d against the subsampled reference
\* profile rhoz0 (lines 356-379)
SignOf(rhoz0, z0, step, nd, d, build) ==
    IF rhoz0 # None /\ d.sens # None
    THEN LET rhoz == StrideCols(d.sens.rho, step)
         IN  IF Shape(rhoz0) = Shape(rhoz) /\ z0 = d.sens.tc
             THEN LET test == [i \in DOMAIN rhoz0 |->
                                 [j \in DOMAIN rhoz0[i] |->
                                     RDiv(rhoz0[i][j], rhoz[i][j])]]
                  IN  IF \E i \in DOMAIN test : \E j \in DOMAIN test[i] :
                            RGt(RAbs(RSub(RAbs(test[i][j]), Q(1))), Tol)
                      THEN Ones(nd)
                      ELSE [i \in DOMAIN test |->
                              LET m == ModeRow([j \in DOMAIN test[i] |->
                                                   RSign(test[i][j])], build)
                              IN  IF IsNaN(m) THEN Q(1) ELSE m]
             ELSE Ones(nd)
    ELSE Ones(nd)

\* int(numSamples / 10), the stride of the subsampling (line 346)
Step(ns) == ns \div 10

\* sens_sign_check(data0, data_in): one sign vector per candidate, or the
\* ValueError of a slice with step 0
sens_sign_check(data0, data_in, build) ==
    LET nd == Len(data0.R[1])
    IN  IF data0.sens # None
        THEN LET step == Step(Len(data0.sens.rho[1]))
             IN  IF step = 0
                 THEN Raise("ValueError")
                 ELSE Return([k \in DOMAIN data_in |->
                                SignOf(StrideCols(data0.sens.rho, step),
                                       data0.sens.tc, step, nd, data_in[k], build)])
        ELSE Return([k \in DOMAIN data_in |->
                       SignOf(None, None, 0, nd, data_in[k], build)])

-----------------------------------------------------------------------------
(* avg_data (r_no_opt=False) *)

\* np.sqrt of a variance, kept symbolic: data.R_std holds Sqrt(v)
Sqrt(v) == [sqrt |-> v]

\* s*d.R: the sign vector s multiplies the detector (last) axis of d.R
ApplySign(s, R) ==
    [e \in DOMAIN R |-> [d \in DOMAIN R[e] |-> RMul(s[d], R[e][d])]]

\* d.R_std**2
Squared(m) ==
    [e \in DOMAIN m |-> [d \in DOMAIN m[e] |-> RMul(m[e][d], m[e][d])]]

\* Column p of a stack of rows
Col(A, p) == [i \in DOMAIN A |-> A[i][p]]

\* The inverse variances divided by that of the first input instead of by
\* their sum over the inputs
InverseVarianceWeightsByFirst(Rvar) ==
    LET wt == [i \in DOMAIN Rvar |-> [p \in DOMAIN Rvar[i] |-> RDiv(Q(1), Rvar[i][p])]]
    IN  [kind |-> "matrix",
         v |-> [i \in DOMAIN wt |-> [p \in DOMAIN wt[i] |->
                    RDiv(wt[i][p], RMul(Q(Len(wt)), wt[1][p]))]]]

\* wt=1/Rvar; wt=wt/wt.sum(axis=0): one weight per input and element
InverseVarianceWeights(Rvar) ==
    LET wt == [i \in DOMAIN Rvar |-> [p \in DOMAIN Rvar[i] |-> RDiv(Q(1), Rvar[i][p])]]
    IN  [kind |-> "matrix",
         v |-> [i \in DOMAIN wt |-> [p \in DOMAIN wt[i] |->
                    RDiv(wt[i][p], RSum(Col(wt, p)))]]]

\* wt=np.array(weight); wt=wt/wt.sum(axis=0): a vector, one weight per input
ExplicitWeights(weight) ==
    [kind |-> "vector",
     v |-> [i \in DOMAIN weight |-> RDiv(weight[i], RSum(weight))]]

\* wt=1/R.shape[0]
UniformWeights(k) == [kind |-> "scalar", v |-> RDiv(Q(1), Q(k))]

\* The weights of lines 195-203
Weights(weighted, weight, Rvar) ==
    IF weighted
    THEN (IF weight = None THEN InverseVarianceWeights(Rvar)
          ELSE ExplicitWeights(weight))
    ELSE UniformWeights(Len(Rvar))

\* (A*wt).sum(axis=0) for A of shape (k, N), wt being raised to the power
\* pw (1 or 2) first.  numpy aligns a vector wt of length L with the LAST axis
\* of A: with L = N it weights element p by wt[p], with L = 1 it is a scalar,
\* with N = 1 the product has shape (k, L), and otherwise the shapes do not
\* broadcast (ValueError).
WeightedSum(A, wt, pw) ==
    LET k == Len(A)
        N == Len(A[1])
        P(w) == IF pw = 2 THEN RMul(w, w) ELSE w
    IN  IF wt.kind = "matrix"
        THEN Return([p \in 1..N |-> RSum([i \in 1..k |-> RMul(A[i][p], P(wt.v[i][p]))])])
        ELSE IF wt.kind = "scalar"
        THEN Return([p \in 1..N |-> RSum([i \in 1..k |-> RMul(A[i][p], P(wt.v))])])
        ELSE LET L == Len(wt.v)
             IN  IF L = N
                 THEN Return([p \in 1..N |->
                                RSum([i \in 1..k |-> RMul(A[i][p], P(wt.v[p]))])])
                 ELSE IF L = 1
                 THEN Return([p \in 1..N |->
                                RSum([i \in 1..k |-> RMul(A[i][p], P(wt.v[1]))])])
                 ELSE IF N = 1
                 THEN Return([j \in 1..L |->
                                RSum([i \in 1..k |-> RMul(A[i][1], P(wt.v[j]))])])
                 ELSE Raise("ValueError")

\* avg_data(data_in, weighted, weight): the averaged data object, or the
\* ValueError of sens_sign_check, of a reshape or of a broadcast
avg_data(data_in, weighted, weight, build) ==
    LET data == data_in[1]
        SZ   == Shape(data.R)
        sign == sens_sign_check(data, data_in, build)
    IN  IF sign.raised # "" THEN sign
        ELSE IF \E k \in DOMAIN data_in :
                    Len(data_in[k].R) * Len(data_in[k].R[1]) # IProd(SZ)
        THEN Raise("ValueError")
        ELSE LET R    == [k \in DOMAIN data_in |->
                            Flatten(ApplySign(sign.val[k], data_in[k].R))]
                 Rvar == [k \in DOMAIN data_in |-> Flatten(Squared(data_in[k].R_std))]
                 wt   == Weights(weighted, weight, Rvar)
                 Rs   == WeightedSum(R, wt, 1)
                 Vs   == WeightedSum(Rvar, wt, 2)
             IN  IF Rs.raised # "" THEN Rs
                 ELSE IF Len(Rs.val) # IProd(SZ) THEN Raise("ValueError")
                 ELSE Return([data EXCEPT
                                 !.R = Unflatten(Rs.val, SZ),
                                 !.R_std = Unflatten([p \in DOMAIN Vs.val |->
                                                         Sqrt(Vs.val[p])], SZ),
                                 !.R_u = None,
                                 !.R_l = None])

-----------------------------------------------------------------------------
(* append_data *)

RECURSIVE ConcatAll(_)
ConcatAll(ss) == IF ss = <<>> THEN <<>> ELSE Head(ss) \o ConcatAll(Tail(ss))

RECURSIVE SelectDefined(_, _)
SelectDefined(data_in, f) ==
    IF data_in = <<>> THEN <<>>
    ELSE (IF Head(data_in)[f] # None THEN <<Head(data_in)[f]>> ELSE <<>>)
             \o SelectDefined(Tail(data_in), f)

\* np.concatenate(pieces, axis=0) succeeds for arrays that agree in every axis
\* but the first
Concatenable(pieces) == \A i \in DOMAIN pieces : Len(pieces[i][1]) = Len(pieces[1][1])

\* The value of field f after lines 249-264: the concatenation of the values
\* of the inputs that define f; the copy of the first input's value when no
\* input defines it, and also when np.concatenate raises (the except clause
\* only prints the warning)
CombinedField(data_in, f) ==
    LET pieces == SelectDefined(data_in, f)
    IN  IF Len(pieces) # 0 /\ Concatenable(pieces)
        THEN ConcatAll(pieces)
        ELSE data_in[1][f]

\* The labels of input k, with str(labels[k]) put before each when labels
\* are given
LabelsOf(data_in, labels, k) ==
    IF labels = None THEN data_in[k].label
    ELSE [l \in DOMAIN data_in[k].label |-> labels[k] \o data_in[k].label[l]]

\* x0=np.zeros(x.shape); x0[index]=x (lines 271-272), fill being the content
\* of the new array before the assignment.  An index outside -n..n-1 raises
\* IndexError, an index array of another length than x (of more than one row)
\* ValueError; of rows written twice the last one stays.
Scatter(x, index, fill) ==
    LET n      == Len(x)
        pos(i) == IF index[i] < 0 THEN index[i] + n + 1 ELSE index[i] + 1
        src(i) == IF n = 1 THEN x[1] ELSE x[i]
    IN  IF \E i \in DOMAIN index : index[i] >= n \/ index[i] < -n
        THEN Raise("IndexError")
        ELSE IF Len(index) # n /\ n # 1
        THEN Raise("ValueError")
        ELSE Return([r \in 1..n |->
                        IF \E i \in DOMAIN index : pos(i) = r
                        THEN src(CHOOSE i \in DOMAIN index :
                                    /\ pos(i) = r
                                    /\ \A j \in DOMAIN index : pos(j) = r => j <= i)
                        ELSE fill[r]])

\* The data object after lines 239-265
Appended(data_in, labels) ==
    [a \in DOMAIN data_in[1] |->
        IF a \in Range(flds) THEN CombinedField(data_in, a)
        ELSE IF a = "label"
        THEN ConcatAll([k \in DOMAIN data_in |-> LabelsOf(data_in, labels, k)])
        ELSE data_in[1][a]]

\* append_data(data_in, labels, index); junk is the content of the memory
\* np.empty hands out for the labels
append_data(data_in, labels, index, junk, build) ==
    LET sign  == sens_sign_check(data_in[1], data_in, build)
        data  == Appended(data_in, labels)
        names == flds \o <<"label">>
        sc    == [i \in DOMAIN names |->
                     LET x == data[names[i]]
                     IN  IF x = None THEN Return(None)
                         ELSE IF names[i] = "label"
                         THEN Scatter(x, index, [r \in DOMAIN x |-> junk])
                         ELSE Scatter(x, index,
                                      [r \in DOMAIN x |-> [c \in DOMAIN x[1] |-> Q(0)]])]
        at(a) == CHOOSE i \in DOMAIN names : names[i] = a
    IN  IF sign.raised # "" THEN sign
        ELSE IF index = None THEN Return(data)
        ELSE IF \E i \in DOMAIN sc : sc[i].raised # ""
        THEN sc[CHOOSE i \in DOMAIN sc :
                    /\ sc[i].raised # ""
                    /\ \A j \in 1..(i - 1) : sc[j].raised = ""]
        ELSE Return([a \in DOMAIN data |->
                        IF a \in Range(names) THEN sc[at(a)].val ELSE data[a]])

-----------------------------------------------------------------------------
(* linear_ex, for I0 of one dimension *)

Reverse(s) == [i \in DOMAIN s |-> s[Len(s) + 1 - i]]

\* all(np.diff(x0)>=0) or all(np.diff(x0)<=0) (line 560)
Monotonic(x0) ==
    \/ \A i \in 1..(Len(x0) - 1) : RGe(RSub(x0[i + 1], x0[i]), Q(0))
    \/ \A i \in 1..(Len(x0) - 1) : RLe(RSub(x0[i + 1], x0[i]), Q(0))

\* np.any(np.diff(x0)<0) (line 578)
Descends(x0) == \E i \in 1..(Len(x0) - 1) : RLt(RSub(x0[i + 1], x0[i]), Q(0))

RMax(S) == CHOOSE v \in S : \A w \in S : ~RGt(w, v)

\* An assignment I0[0]=v into an array of integer type truncates v, and
\* raises for a v that is not finite; into a float array it stores v.
Stored(v, isInt) ==
    IF ~isInt THEN Return(v)
    ELSE IF IsNaN(v) THEN Raise("ValueError")
    ELSE IF ~IsFinite(v) THEN Raise("OverflowError")
    ELSE Return(RTrunc(v))

\* Lines 585-594: the sentinel below x0, when x reaches down to x0[0].  a is
\* [x0, I0, isInt] in ascending order.
LowSentinel(a, x, mode) ==
    LET xmin == RMin(Range(x))
    IN  IF ~RLe(xmin, a.x0[1]) THEN Return(a)
        ELSE LET nx == <<RSub(xmin, Q(1))>> \o a.x0
             IN  IF mode = "last_slope"
                 THEN IF Len(nx) < 3 THEN Raise("IndexError")
                      ELSE LET run   == RSub(nx[3], nx[2])
                               rise  == RSub(a.I0[2], a.I0[1])
                               slope == RDiv(rise, run)
                               v     == Stored(RSub(a.I0[1],
                                                    RMul(slope, RSub(nx[2], nx[1]))),
                                               a.isInt)
                           IN  IF v.raised # "" THEN v
                               ELSE Return([x0 |-> nx, I0 |-> <<v.val>> \o a.I0,
                                            isInt |-> a.isInt])
                 ELSE Return([x0 |-> nx, I0 |-> <<a.I0[1]>> \o a.I0,
                              isInt |-> a.isInt])

\* The sentinel above x0 taken two samples back instead of one in the mode
\* last_value
HighSentinelOffByOne(a, x, mode) ==
    LET xmax == RMax(Range(x))
        n    == Len(a.x0)
    IN  IF ~RGe(xmax, a.x0[n]) THEN Return(a)
        ELSE Return([x0 |-> a.x0 \o <<RAdd(xmax, Q(1))>>,
                     I0 |-> a.I0 \o <<a.I0[IF n > 1 THEN n - 1 ELSE n]>>,
                     isInt |-> FALSE])

\* Lines 595-604: the sentinel above x0, when x reaches up to x0[-1].  The
\* concatenation with np.zeros makes I0 a float array.
HighSentinel(a, x, mode) ==
    LET xmax == RMax(Range(x))
        n    == Len(a.x0)
    IN  IF ~RGe(xmax, a.x0[n]) THEN Return(a)
        ELSE LET nx == a.x0 \o <<RAdd(xmax, Q(1))>>
             IN  IF mode = "last_slope"
                 THEN IF n < 2 THEN Raise("IndexError")
                      ELSE LET run   == RSub(nx[n - 1], nx[n])
                               rise  == RSub(a.I0[n - 1], a.I0[n])
                               slope == RDiv(rise, run)
                           IN  Return([x0 |-> nx,
                                       I0 |-> a.I0 \o <<RSub(a.I0[n],
                                                  RMul(slope, RSub(nx[n], nx[n + 1])))>>,
                                       isInt |-> FALSE])
                 ELSE Return([x0 |-> nx, I0 |-> a.I0 \o <<a.I0[n]>>, isInt |-> FALSE])

\* np.digitize(v, x0) for ascending x0: the number of entries of x0 that are
\* not above v
Digitize(v, x0) == Cardinality({j \in DOMAIN x0 : RLe(x0[j], v)})

\* The weights of the two bracketing samples exchanged
InterpolateSwapped(a, v) ==
    LET i == Digitize(v, a.x0)
    IN  RDiv(RAdd(RMul(a.I0[i], RSub(v, a.x0[i])),
                  RMul(a.I0[i + 1], RSub(a.x0[i + 1], v))),
             RSub(a.x0[i + 1], a.x0[i]))

\* Line 609 for one query v: i is Digitize(v, x0), counted from 0
Interpolate(a, v) ==
    LET i == Digitize(v, a.x0)
    IN  RDiv(RAdd(RMul(a.I0[i], RSub(a.x0[i + 1], v)),
                  RMul(a.I0[i + 1], RSub(v, a.x0[i]))),
             RSub(a.x0[i + 1], a.x0[i]))

\* linear_ex(x0, I0, x, mode=mode), with I0 an array of one dimension of the
\* integer type when isInt, x an array of one dimension
linear_ex(x0, I0, x, mode, isInt) ==
    IF ~Monotonic(x0) THEN Raise("AssertionError")
    ELSE IF Len(I0) # Len(x0) THEN Raise("AssertionError")
    ELSE LET a0 == IF Descends(x0)
                   THEN [x0 |-> Reverse(x0), I0 |-> Reverse(I0), isInt |-> isInt]
                   ELSE [x0 |-> x0, I0 |-> I0, isInt |-> isInt]
             a1 == LowSentinel(a0, x, mode)
         IN  IF a1.raised # "" THEN a1
             ELSE LET a2 == HighSentinel(a1.val, x, mode)
                  IN  IF a2.raised # "" THEN a2
                      ELSE Return([q \in DOMAIN x |-> Interpolate(a2.val, x[q])])

-----------------------------------------------------------------------------
(* prod_mat and calc_prod *)

Transpose(m) == [j \in DOMAIN m[1] |-> [i \in DOMAIN m |-> m[i][j]]]

\* np.dot of two matrices
Dot(a, b) ==
    [i \in DOMAIN a |-> [j \in DOMAIN b[1] |->
        RSum([l \in DOMAIN b |-> RMul(a[i][l], b[l][j])])]]

\* m without row i and column j
Minor(m, i, j) ==
    [p \in 1..(Len(m) - 1) |-> [q \in 1..(Len(m) - 1) |->
        m[IF p < i THEN p ELSE p + 1][IF q < j THEN q ELSE q + 1]]]

RECURSIVE Det(_)
Det(m) ==
    IF Len(m) = 1 THEN m[1][1]
    ELSE RSum([j \in DOMAIN m |->
                  RMul(RMul(Q(IF j % 2 = 1 THEN 1 ELSE -1), m[1][j]),
                       Det(Minor(m, 1, j)))])

Inverse(m) ==
    IF Len(m) = 1 THEN <<<<RDiv(Q(1), m[1][1])>>>>
    ELSE [i \in DOMAIN m |-> [j \in DOMAIN m |->
            RDiv(RMul(Q(IF (i + j) % 2 = 0 THEN 1 ELSE -1), Det(Minor(m, j, i))),
                 Det(m))]]

\* np.linalg.lstsq(r, b, rcond=None)[0] for r of full column rank: the
\* solution of the normal equations
Lstsq(r, b) == Dot(Inverse(Dot(Transpose(r), r)), Dot(Transpose(r), b))

\* np.dot(np.atleast_2d(row2).T, np.atleast_2d(row1)).reshape(n1*n2): the
\* outer product, entry row2[j]*row1[i] at the place (j-1)*n1 + i
Outer(row1, row2) ==
    LET n1 == Len(row1)
    IN  [p \in 1..(n1 * Len(row2)) |->
            RMul(row2[((p - 1) \div n1) + 1], row1[((p - 1) % n1) + 1])]

\* prod_mat(r1, r2, r) for raw matrices
prod_mat(r1, r2, r) ==
    Lstsq(r, [k \in DOMAIN r1 |-> Outer(r1[k], r2[k])])

\* np.atleast_2d(v).T.repeat(n2,axis=1).reshape(n1*n2): v[i] at the places
\* (i-1)*n2 + 1 .. i*n2
RepeatEach(v, n2) == [p \in 1..(Len(v) * n2) |-> v[((p - 1) \div n2) + 1]]

\* np.atleast_2d(v).repeat(n1,axis=0).reshape(n1*n2): v as a whole, n1 times
RepeatWhole(v, n1) == [p \in 1..(n1 * Len(v)) |-> v[((p - 1) % Len(v)) + 1]]

\* Element-wise quotient of two vectors of one length
VDiv(a, b) == [i \in DOMAIN a |-> RDiv(a[i], b[i])]

\* Lines 526-529 for one experiment: row1 is a row of R1 as line 519 has just
\* set it, row2 of R2, f of p1p2.T
VarianceOfProducts(row1, row2, var1, var2, f) ==
    LET n1 == Len(var1)
        n2 == Len(var2)
        x  == RepeatEach(VDiv(var1, row1), n2)
        y  == RepeatWhole(VDiv(var2, row2), n1)
    IN  [p \in 1..(n1 * n2) |-> RMul(RMul(f[p], f[p]), RAdd(x[p], y[p]))]

\* Lines 476-505: the locals when the loop is reached.  data is a list of
\* data objects (nf = 0 standing for None) or one data object of nf blocks;
\* r is one raw matrix, used for every factor.
Prepared(data, r, nf) ==
    LET n   == IF nf = 0 THEN 0 ELSE Len(data.R) \div nf
        R   == IF nf = 0 THEN [k \in DOMAIN data |-> data[k].R]
               ELSE [k \in 1..nf |-> SubSeq(data.R, (k - 1) * n + 1, k * n)]
        Rsd == IF nf = 0 THEN [k \in DOMAIN data |-> data[k].R_std]
               ELSE [k \in 1..nf |-> SubSeq(data.R_std, (k - 1) * n + 1, k * n)]
        m   == Len(R)
    IN  [out |-> IF nf = 0 THEN data[1] ELSE data,
         R |-> SubSeq(R, 1, m - 1),
         R_std |-> SubSeq(Rsd, 1, m - 1),
         r0 |-> [k \in 1..(m - 1) |-> r],
         r |-> r,
         R1 |-> R[m],
         r1 |-> r,
         R1_var |-> Squared(Rsd[m]),
         fold |-> None]

\* One pass of the loop of lines 508-532 on the locals l; fold records what
\* the pass worked with: the factors before the pass, p1p2.T and p1p2_var
Folded(l) ==
    LET m    == Len(l.R)
        r2   == l.r0[m]
        pr   == prod_mat(l.r1, r2, l.r)
        R2   == l.R[m]
        p    == [e \in 1..(IF Len(l.R1) < Len(R2) THEN Len(l.R1) ELSE Len(R2)) |->
                    Outer(l.R1[e], R2[e])]
        R1   == Transpose(Dot(pr, Transpose(p)))
        R2v  == Squared(l.R_std[m])
        pvar == [e \in DOMAIN p |->
                    VarianceOfProducts(R1[e], R2[e], l.R1_var[e], R2v[e], p[e])]
    IN  [l EXCEPT !.R = SubSeq(l.R, 1, m - 1),
                  !.R_std = SubSeq(l.R_std, 1, m - 1),
                  !.r0 = SubSeq(l.r0, 1, m - 1),
                  !.r1 = l.r,
                  !.R1 = R1,
                  !.R1_var = Transpose(Dot(pr, Transpose(pvar))),
                  !.fold = [R1 |-> l.R1, R2 |-> R2, R1_var |-> l.R1_var,
                            R2_var |-> R2v, p1p2 |-> p, p1p2_var |-> pvar]]

\* Lines 534-537: the data object returned
Finished(l) ==
    [l.out EXCEPT !.R = l.R1,
                  !.R_std = [e \in DOMAIN l.R1_var |-> [d \in DOMAIN l.R1_var[e] |->
                                Sqrt(l.R1_var[e][d])]]]

-----------------------------------------------------------------------------
(* The inputs the operations are called with *)

MaxDet == 2

\* Sample counts of the profiles: below 10, 10 (stride 1) and 20 (stride 2)
NumSamples == {4, 10, 20}

\* The releases of scipy.stats.mode
Builds == {"loop", "unique", "propagate"}

Signs(nd) == [1..nd -> {1, -1}]

\* Profile entries: "plain" and "scaled" have no zero and one sign per
\* detector, "zeros" has a zero in every second column, "mixed" alternates
\* its sign from column to column, "null" is "plain" with a first detector
\* of zeros alone.
ProfileKinds == {"plain", "scaled", "zeros", "mixed", "null"}

ProfileEntry(kind, d, j) ==
    IF kind = "plain" THEN d + j
    ELSE IF kind = "scaled" THEN 2 * (d + j)
    ELSE IF kind = "zeros" THEN (IF j % 2 = 0 THEN 0 ELSE d + j)
    ELSE IF kind = "null" THEN (IF d = 1 THEN 0 ELSE d + j)
    ELSE (IF j % 2 = 0 THEN -(d + j) ELSE d + j)

Profile(nd, ns, sg, kind, tc) ==
    MkSens([d \in 1..nd |-> [j \in 1..ns |-> Q(sg[d] * ProfileEntry(kind, d, j))]],
           tc)

\* Sign patterns of a profile: no detector flipped, the first, the last, all
SignPatterns == {"none", "first", "last", "all"}

SignPattern(nd, f) ==
    [d \in 1..nd |->
        IF f = "all" \/ (f = "first" /\ d = 1) \/ (f = "last" /\ d = nd)
        THEN -1 ELSE 1]

\* The profiles of nd detectors with entries of the kinds K and boundary
\* coordinates among T, and None
Profiles(nd, K, T) ==
    {None} \cup {Profile(nd, ns, SignPattern(nd, f), kind, tc) :
                    ns \in NumSamples, f \in SignPatterns, kind \in K, tc \in T}

\* A data object of one experiment with the responses 1..nd
Probe(nd, sens) ==
    MkData(<<[d \in 1..nd |-> Q(d)]>>, <<[d \in 1..nd |-> Q(1)]>>, <<"a">>, sens)

-----------------------------------------------------------------------------
(* The operations as actions *)

Init ==
    /\ op = "none"
    /\ args = None
    /\ ret = Return(None)
    /\ pc = "idle"
    /\ loc = None

\* sens_sign_check(data0, data_in) with one candidate, alone or after the
\* reference itself
SensSignCheck ==
    \E nd \in 1..MaxDet, build \in Builds, withRef \in BOOLEAN :
    \E s0 \in Profiles(nd, {"plain", "zeros", "null"}, {<<1, 9>>}),
       s1 \in Profiles(nd, ProfileKinds, {<<1, 9>>})
                 \cup Profiles(nd, {"plain"}, {<<1, 8>>}) :
        LET data0   == Probe(nd, s0)
            cand    == Probe(nd, s1)
            data_in == IF withRef THEN <<data0, cand>> ELSE <<cand>>
        IN  /\ pc = "idle"
            /\ op' = "sens_sign_check"
            /\ args' = [data0 |-> data0, data_in |-> data_in, build |-> build]
            /\ ret' = sens_sign_check(data0, data_in, build)
            /\ pc' = "done"
            /\ UNCHANGED loc

NextSign == SensSignCheck

SpecSign == Init /\ [][NextSign]_vars

\* The profile rho with detector row d multiplied by s[d]
FlipRows(rho, s) ==
    [d \in DOMAIN rho |-> [j \in DOMAIN rho[d] |-> RMul(Q(s[d]), rho[d][j])]]

NonZero(rho) == \A d \in DOMAIN rho : \A j \in DOMAIN rho[d] : rho[d][j] # Q(0)

\* Candidate k of the call is the reference with its rows multiplied by s
IsFlipOfRef(k, s) ==
    /\ args.data0.sens # None
    /\ args.data_in[k].sens # None
    /\ NonZero(args.data0.sens.rho)
    /\ args.data_in[k].sens.tc = args.data0.sens.tc
    /\ args.data_in[k].sens.rho = FlipRows(args.data0.sens.rho, s)

\* C6: for a candidate whose profile is the reference profile with detector
\* row d multiplied by s_d (same shape, same boundary coordinates, non-zero
\* entries), sens_sign_check returns the sign vector s: all +1 for the
\* reference itself, -1 exactly on the flipped detectors.
C6_SignsRecovered ==
    op = "sens_sign_check" =>
        \A k \in DOMAIN args.data_in :
            \A s \in Signs(Len(args.data0.R[1])) :
                IsFlipOfRef(k, s) =>
                    /\ ret.raised = ""
                    /\ ret.val[k] = [d \in DOMAIN s |-> Q(s[d])]

\* What holds of C6 in the code: the same, for a reference profile of ten
\* samples or more.
C6_SignsRecoveredFromTenSamples ==
    op = "sens_sign_check" =>
        \A k \in DOMAIN args.data_in :
            \A s \in Signs(Len(args.data0.R[1])) :
                IsFlipOfRef(k, s) /\ Len(args.data0.sens.rho[1]) >= 10 =>
                    /\ ret.raised = ""
                    /\ ret.val[k] = [d \in DOMAIN s |-> Q(s[d])]

\* The ratios of the sampled columns of the reference and of candidate k
SampledRatio(k) ==
    LET step  == Step(Len(args.data0.sens.rho[1]))
        rhoz0 == StrideCols(args.data0.sens.rho, step)
        rhoz  == StrideCols(args.data_in[k].sens.rho, step)
    IN  [i \in DOMAIN rhoz0 |->
            [j \in DOMAIN rhoz0[i] |-> RDiv(rhoz0[i][j], rhoz[i][j])]]

\* Candidate k of a call that returned passes the shape, boundary and
\* unit-magnitude checks
PassesChecks(k) ==
    /\ op = "sens_sign_check"
    /\ ret.raised = ""
    /\ args.data0.sens # None
    /\ args.data_in[k].sens # None
    /\ LET step == Step(Len(args.data0.sens.rho[1]))
       IN  Shape(StrideCols(args.data_in[k].sens.rho, step))
               = Shape(StrideCols(args.data0.sens.rho, step))
    /\ args.data_in[k].sens.tc = args.data0.sens.tc
    /\ \A i \in DOMAIN SampledRatio(k) : \A j \in DOMAIN SampledRatio(k)[i] :
          ~RGt(RAbs(RSub(RAbs(SampledRatio(k)[i][j]), Q(1))), Tol)

\* The signs of the ratios of detector i
SignRow(k, i) ==
    [j \in DOMAIN SampledRatio(k)[i] |-> RSign(SampledRatio(k)[i][j])]

\* C12: for a candidate that passes the shape, boundary and unit-magnitude
\* checks, every entry of the sign vector is +1 or -1, and it is the most
\* frequent sign of the ratio across the sampled columns of its detector,
\* +1 when +1 and -1 occur equally often.  (Of a detector with a NaN among
\* its signs only the first part is stated.)
C12_ModeOfSigns ==
    op = "sens_sign_check" =>
        \A k \in DOMAIN args.data_in :
            PassesChecks(k) =>
                \A i \in DOMAIN ret.val[k] :
                    /\ ret.val[k][i] \in {Q(1), Q(-1)}
                    /\ NaN \notin Range(SignRow(k, i)) =>
                          ret.val[k][i] =
                              IF Count(SignRow(k, i), Q(-1)) > Count(SignRow(k, i), Q(1))
                              THEN Q(-1) ELSE Q(1)

\* What holds of C12 in the code: the entry is +1, -1 or 0 (0 with the mode
\* of scipy below 1.7, for a detector whose signs are all NaN), and of the
\* signs of a detector without NaN it is the most frequent one, -1 when +1
\* and -1 occur equally often.
C12_ModeOfSignsTieMinus ==
    op = "sens_sign_check" =>
        \A k \in DOMAIN args.data_in :
            PassesChecks(k) =>
                \A i \in DOMAIN ret.val[k] :
                    /\ ret.val[k][i] \in {Q(1), Q(-1), Q(0)}
                    /\ ret.val[k][i] = Q(0) =>
                          /\ args.build = "loop"
                          /\ Range(SignRow(k, i)) = {NaN}
                    /\ NaN \notin Range(SignRow(k, i)) =>
                          ret.val[k][i] =
                              IF Count(SignRow(k, i), Q(-1)) >= Count(SignRow(k, i), Q(1))
                              THEN Q(-1) ELSE Q(1)

\* max(1, floor(numSamples / 10))
StepAtLeastOne(ns) == IF ns \div 10 < 1 THEN 1 ELSE ns \div 10

\* The sign vectors of the call for a subsampling of stride step
SignsWithStride(step) ==
    [k \in DOMAIN args.data_in |->
        SignOf(StrideCols(args.data0.sens.rho, step), args.data0.sens.tc, step,
               Len(args.data0.R[1]), args.data_in[k], args.build)]

\* C13: sens_sign_check subsamples the sample axis with the stride
\* max(1, floor(numSamples / 10)); for a reference profile of fewer than 10
\* samples the stride is 1 and the call returns one sign vector per
\* candidate instead of failing.
C13_StrideAtLeastOne ==
    (op = "sens_sign_check" /\ args.data0.sens # None) =>
        /\ ret.raised = ""
        /\ Len(ret.val) = Len(args.data_in)
        /\ ret.val = SignsWithStride(StepAtLeastOne(Len(args.data0.sens.rho[1])))

\* What holds of C13 in the code: the stride is floor(numSamples / 10), and
\* the call raises ValueError for a reference profile of fewer than 10
\* samples, whatever the candidates are.
C13_FailsBelowTenSamples ==
    (op = "sens_sign_check" /\ args.data0.sens # None) =>
        IF Len(args.data0.sens.rho[1]) < 10
        THEN ret = Raise("ValueError")
        ELSE /\ ret.raised = ""
             /\ Len(ret.val) = Len(args.data_in)
             /\ ret.val = SignsWithStride(Len(args.data0.sens.rho[1]) \div 10)

-----------------------------------------------------------------------------
(* avg_data as an action *)

MaxK == 2

ExpCounts == {1, 2}

\* Responses and standard deviations of the inputs: the response seed gives
\* negative, zero and positive entries, the deviation seed 1 is uniform
RVal(r, e, d) == Q((2 * r - 1) * (e + 2 * d) - 5)

StdVal(s, e, d) == IF s = 1 THEN Q(2) ELSE Q(e + d)

\* The kinds of input of avg_data: response seed, deviation seed, and a
\* profile (its sign pattern) or none
InputKinds ==
    {<<1, 1, "none">>, <<1, 1, "plain">>, <<2, 2, "plain">>, <<2, 1, "first">>,
     <<1, 2, "all">>, <<2, 2, "none">>}

Input(ne, nd, ns, kind) ==
    MkData([e \in 1..ne |-> [d \in 1..nd |-> RVal(kind[1], e, d)]],
           [e \in 1..ne |-> [d \in 1..nd |-> StdVal(kind[2], e, d)]],
           [e \in 1..ne |-> "a"],
           IF kind[3] = "none" THEN None
           ELSE Profile(nd, ns, SignPattern(nd, kind[3]), "plain", <<1, 9>>))

\* weight: None, or one positive weight per input, unequal or equal
WeightLists(k) == {None, [i \in 1..k |-> Q(i)], [i \in 1..k |-> Q(2)]}

AvgData ==
    \E k \in 1..MaxK, ne \in ExpCounts, nd \in 1..MaxDet, ns \in {4, 10} :
    \E kinds \in [1..k -> InputKinds], weighted \in BOOLEAN,
       weight \in WeightLists(k) :
        LET data_in == [i \in 1..k |-> Input(ne, nd, ns, kinds[i])]
        IN  /\ pc = "idle"
            /\ weighted \/ weight = None
            /\ op' = "avg_data"
            /\ args' = [data_in |-> data_in, weighted |-> weighted,
                        weight |-> weight, build |-> "loop"]
            /\ ret' = avg_data(data_in, weighted, weight, "loop")
            /\ pc' = "done"
            /\ UNCHANGED loc

NextAvg == AvgData

SpecAvg == Init /\ [][NextAvg]_vars

\* Every input of the call is the same Response Set, of one non-zero
\* standard deviation, averaged without an explicit weight list
IdenticalCopies ==
    /\ op = "avg_data"
    /\ args.weight = None
    /\ \A i \in DOMAIN args.data_in : args.data_in[i] = args.data_in[1]
    /\ \A e \in DOMAIN args.data_in[1].R_std : \A d \in DOMAIN args.data_in[1].R_std[e] :
          /\ args.data_in[1].R_std[e][d] = args.data_in[1].R_std[1][1]
          /\ args.data_in[1].R_std[e][d] # Q(0)

\* The result is the response of the first input, with its variance divided
\* by the number of inputs
IsOriginalOverK ==
    /\ ret.raised = ""
    /\ ret.val.R = args.data_in[1].R
    /\ ret.val.R_std =
          [e \in DOMAIN args.data_in[1].R |-> [d \in DOMAIN args.data_in[1].R[e] |->
              Sqrt(RDiv(RMul(args.data_in[1].R_std[e][d], args.data_in[1].R_std[e][d]),
                        Q(Len(args.data_in))))]]

\* C1: avg_data on k >= 1 identical copies of one Response Set (same R, same
\* uniform non-zero R_std, same sensitivity profile), weighted without an
\* explicit weight or unweighted, returns the original R element for element
\* and the original variance divided by k.
C1_IdenticalCopies == IdenticalCopies => IsOriginalOverK

\* What holds of C1 in the code: the same, when the copies carry no profile or
\* one of ten samples or more.
C1_IdenticalCopiesFromTenSamples ==
    (/\ IdenticalCopies
     /\ args.data_in[1].sens # None => Len(args.data_in[1].sens.rho[1]) >= 10)
        => IsOriginalOverK

\* The permutations of 1..n
Perms(n) == {f \in [1..n -> 1..n] : \A i, j \in 1..n : f[i] = f[j] => i = j}

Permuted(data_in, f) == [i \in DOMAIN data_in |-> data_in[f[i]]]

\* C2: avg_data is invariant to input order: for every list of Response Sets
\* of equal shape and every permutation of it the combined R and the combined
\* R_std are those of the unpermuted list, also when the profiles of the
\* inputs differ by per-detector sign flips.  (Stated of the calls that
\* return, with no explicit weight list.)
C2_OrderInvariant ==
    (op = "avg_data" /\ args.weight = None /\ ret.raised = "") =>
        \A f \in Perms(Len(args.data_in)) :
            LET other == avg_data(Permuted(args.data_in, f), args.weighted,
                                  args.weight, args.build)
            IN  other.raised = "" =>
                    /\ other.val.R = ret.val.R
                    /\ other.val.R_std = ret.val.R_std

\* C2 as amended: the combined R_std is the same for every permutation (when
\* both calls return), and the whole outcome, combined R or failure, is the
\* same for every permutation that leaves an input of the same sensitivity
\* profile (or none) in first place, the first input being the reference of
\* the signs.
C2_OrderInvariantUnderSameReference ==
    (op = "avg_data" /\ args.weight = None) =>
        \A f \in Perms(Len(args.data_in)) :
            LET other == avg_data(Permuted(args.data_in, f), args.weighted,
                                  args.weight, args.build)
            IN  /\ (other.raised = "" /\ ret.raised = "") =>
                        other.val.R_std = ret.val.R_std
                /\ args.data_in[f[1]].sens = args.data_in[1].sens =>
                        /\ other.raised = ret.raised
                        /\ ret.raised = "" =>
                              /\ other.val.R = ret.val.R
                              /\ other.val.R_std = ret.val.R_std

\* A call of at least two inputs that differ in response, deviation and the
\* sign of their profiles, which returns
C2_Witness ==
    /\ op = "avg_data"
    /\ args.weight = None
    /\ args.weighted
    /\ ret.raised = ""
    /\ Len(args.data_in) >= 2
    /\ args.data_in[1].sens # None
    /\ args.data_in[2].sens # None
    /\ args.data_in[1].sens = args.data_in[2].sens
    /\ args.data_in[1].R # args.data_in[2].R
    /\ args.data_in[1].R_std # args.data_in[2].R_std

\* C3: with weighted=True and one positive weight w_i per input the weights
\* are normalised along the input axis: every element of the combined R is
\* the sum over the inputs i of (w_i / sum(w)) * sign_i * R_i, and the combined
\* variance the sum of (w_i / sum(w))^2 * R_std_i^2, for every input count and
\* every number of matrix elements, also when the two are equal.  (Stated of
\* the calls whose sign check returns.)
C3_WeightsAlongInputs ==
    (op = "avg_data" /\ args.weighted /\ args.weight # None) =>
        LET sign == sens_sign_check(args.data_in[1], args.data_in, args.build)
            w(i) == RDiv(args.weight[i], RSum(args.weight))
            K    == DOMAIN args.data_in
        IN  sign.raised = "" =>
              /\ ret.raised = ""
              /\ \A e \in DOMAIN args.data_in[1].R : \A d \in DOMAIN args.data_in[1].R[e] :
                    /\ ret.val.R[e][d] =
                          RSum([i \in K |-> RMul(w(i), RMul(sign.val[i][d],
                                                          args.data_in[i].R[e][d]))])
                    /\ ret.val.R_std[e][d] =
                          Sqrt(RSum([i \in K |-> RMul(RMul(w(i), w(i)),
                                      RMul(args.data_in[i].R_std[e][d],
                                           args.data_in[i].R_std[e][d]))]))

-----------------------------------------------------------------------------
(* append_data as an action *)

\* The kinds of input of append_data: the number of experiments, whether R
\* and R_std have one detector more than the others, and R_u and S2c: absent
\* ("none"), of the shape of R ("ok") or one column wider ("wide")
AppendKinds ==
    {[ne |-> 1, wideR |-> FALSE, R_u |-> "none", S2c |-> "ok"],
     [ne |-> 2, wideR |-> FALSE, R_u |-> "ok", S2c |-> "ok"],
     [ne |-> 1, wideR |-> FALSE, R_u |-> "wide", S2c |-> "none"],
     [ne |-> 2, wideR |-> TRUE, R_u |-> "none", S2c |-> "none"],
     [ne |-> 1, wideR |-> FALSE, R_u |-> "ok", S2c |-> "none"]}

LabelNames == <<"a", "b", "c", "d">>

\* Entry (e, d) of field number fi of input i: all different
FieldVal(i, fi, e, d) == Q(10000 * i + 100 * fi + 10 * e + d)

FieldMat(i, fi, ne, nc) ==
    [e \in 1..ne |-> [d \in 1..nc |-> FieldVal(i, fi, e, d)]]

AppendInput(i, nd, kind, sens) ==
    LET w == IF kind.wideR THEN nd + 1 ELSE nd
        opt(fi, how) == IF how = "none" THEN None
                        ELSE FieldMat(i, fi, kind.ne, IF how = "wide" THEN w + 1 ELSE w)
    IN  [MkData(FieldMat(i, 1, kind.ne, w), FieldMat(i, 2, kind.ne, w),
                [e \in 1..kind.ne |-> LabelNames[i] \o LabelNames[e]], sens)
            EXCEPT !.R_u = opt(3, kind.R_u), !.S2c = opt(11, kind.S2c)]

\* index: None, the rows reversed, the rows moved up by one place, or every
\* row put at place 0
IndexArrays(n) ==
    {None, [i \in 1..n |-> n - i], [i \in 1..n |-> i], [i \in 1..n |-> 0]}

RECURSIVE SumOf(_)
SumOf(s) == IF s = <<>> THEN 0 ELSE Head(s) + SumOf(Tail(s))

AppendData ==
    \E k \in 1..MaxK, nd \in 1..MaxDet, ns \in {0, 4, 10} :
    \E kinds \in [1..k -> AppendKinds], prefixed \in BOOLEAN, junk \in {"", "?"} :
    \E index \in IndexArrays(SumOf([i \in 1..k |-> kinds[i].ne])) :
        LET sens    == IF ns = 0 THEN None
                       ELSE Profile(nd, ns, SignPattern(nd, "none"), "plain", <<1, 9>>)
            data_in == [i \in 1..k |-> AppendInput(i, nd, kinds[i], sens)]
            labels  == IF prefixed THEN [i \in 1..k |-> LabelNames[i + 1] \o "_"] ELSE None
        IN  /\ pc = "idle"
            /\ index = None => junk = ""
            /\ op' = "append_data"
            /\ args' = [data_in |-> data_in, labels |-> labels, index |-> index,
                        build |-> "loop"]
            /\ ret' = append_data(data_in, labels, index, junk, "loop")
            /\ pc' = "done"
            /\ UNCHANGED loc

NextAppend == AppendData

SpecAppend == Init /\ [][NextAppend]_vars

\* x[:n] of an array or of None
Take(x, n) == IF Len(x) <= n THEN x ELSE SubSeq(x, 1, n)

\* The shapes of f are incompatible across the inputs that define it
Incompatible(data_in, f) ==
    LET pieces == SelectDefined(data_in, f)
    IN  Len(pieces) # 0 /\ ~Concatenable(pieces)

\* A call without index whose sign check returns
PlainAppend ==
    /\ op = "append_data"
    /\ args.index = None
    /\ sens_sign_check(args.data_in[1], args.data_in, args.build).raised = ""

\* C4: append_data([A, B]) without label prefixes and index returns a
\* Response Set of |A.label| + |B.label| rows whose first |A.label| rows of
\* every field and of label are A's, whichever of A and B define the field.
\* (Stated of A and B of one detector count, whose sign check returns.)
C4_FirstRowsAreA ==
    (/\ PlainAppend
     /\ args.labels = None
     /\ Len(args.data_in) = 2
     /\ ~Incompatible(args.data_in, "R")) =>
        LET A == args.data_in[1]
            B == args.data_in[2]
            n == Len(A.label)
        IN  /\ ret.raised = ""
            /\ Len(ret.val.R) = Len(A.label) + Len(B.label)
            /\ Len(ret.val.label) = Len(A.label) + Len(B.label)
            /\ Take(ret.val.label, n) = A.label
            /\ \A i \in DOMAIN flds :
                  (A[flds[i]] # None \/ B[flds[i]] # None) =>
                      Take(ret.val[flds[i]], n) = A[flds[i]]

\* C5: when the shapes of one of the fields are incompatible across the
\* inputs, append_data does not fail, that field is absent from the result,
\* and every other field is the concatenation of the inputs' values for it.
\* (Stated of the calls without index whose sign check returns.)
C5_IncompatibleFieldOmitted ==
    PlainAppend =>
        \A i \in DOMAIN flds :
            Incompatible(args.data_in, flds[i]) =>
                /\ ret.raised = ""
                /\ ret.val[flds[i]] = None
                /\ \A j \in DOMAIN flds :
                      ~Incompatible(args.data_in, flds[j]) =>
                          ret.val[flds[j]] =
                              ConcatAll(SelectDefined(args.data_in, flds[j]))

\* What holds of C5 in the code: the call does not fail, the other fields are
\* concatenated, and the field of incompatible shapes keeps the value the
\* first input has for it.
C5_IncompatibleFieldKeepsFirst ==
    PlainAppend =>
        \A i \in DOMAIN flds :
            Incompatible(args.data_in, flds[i]) =>
                /\ ret.raised = ""
                /\ ret.val[flds[i]] = args.data_in[1][flds[i]]
                /\ \A j \in DOMAIN flds :
                      ~Incompatible(args.data_in, flds[j]) =>
                          ret.val[flds[j]] =
                              ConcatAll(SelectDefined(args.data_in, flds[j]))

\* A call with an index of distinct places, as long as the concatenation,
\* whose sign check returns and whose fields all have the rows of label
IndexedAppend ==
    /\ op = "append_data"
    /\ args.index # None
    /\ sens_sign_check(args.data_in[1], args.data_in, args.build).raised = ""
    /\ LET data == Appended(args.data_in, args.labels)
       IN  /\ Len(args.index) = Len(data.label)
           /\ \A i, j \in DOMAIN args.index :
                 args.index[i] = args.index[j] => i = j
           /\ \A f \in DOMAIN flds :
                 data[flds[f]] # None => Len(data[flds[f]]) = Len(data.label)

\* max(index)
MaxOf(index) == CHOOSE m \in Range(index) : \A v \in Range(index) : v <= m

\* Row index[i] of y is row i of x, for every i, and the other rows of y are
\* zeros (when x is a field)
ScatteredInto(x, y, index, zeroed) ==
    /\ \A i \in DOMAIN index : y[index[i] + 1] = x[i]
    /\ zeroed =>
          \A r \in DOMAIN y :
              (\A i \in DOMAIN index : index[i] + 1 # r) =>
                  y[r] = [c \in DOMAIN x[1] |-> Q(0)]

\* C11: append_data with an integer index array returns, for every combined
\* field and for label, a new array of max(index)+1 rows, zero-filled for the
\* fields, in which row index[i] holds concatenated row i; also for an index
\* whose largest entry is the number of concatenated rows or more.
C11_ScatterToIndexExtent ==
    IndexedAppend =>
        LET data == Appended(args.data_in, args.labels)
        IN  /\ ret.raised = ""
            /\ Len(ret.val.label) = MaxOf(args.index) + 1
            /\ ScatteredInto(data.label, ret.val.label, args.index, FALSE)
            /\ \A f \in DOMAIN flds :
                  data[flds[f]] # None =>
                      /\ Len(ret.val[flds[f]]) = MaxOf(args.index) + 1
                      /\ ScatteredInto(data[flds[f]], ret.val[flds[f]],
                                       args.index, TRUE)

\* What holds of C11 in the code: the new arrays have the rows of the
\* concatenation, so that an index with an entry of that number or more
\* raises IndexError, and an index below it is scattered as C11 says.
C11_ScatterWithinRows ==
    IndexedAppend =>
        LET data == Appended(args.data_in, args.labels)
            n    == Len(data.label)
        IN  IF MaxOf(args.index) >= n
            THEN ret.raised = "IndexError"
            ELSE /\ ret.raised = ""
                 /\ Len(ret.val.label) = n
                 /\ ScatteredInto(data.label, ret.val.label, args.index, FALSE)
                 /\ \A f \in DOMAIN flds :
                       data[flds[f]] # None =>
                           /\ Len(ret.val[flds[f]]) = n
                           /\ ScatteredInto(data[flds[f]], ret.val[flds[f]],
                                            args.index, TRUE)

-----------------------------------------------------------------------------
(* linear_ex as an action *)

MaxLen == 3

\* Sample coordinates, as whole numbers
XVals == {0, 1, 2, 4}

\* Sampled values by seed: on a line, and on none
IVal(seed, j) == IF seed = 1 THEN Q(10 * j) ELSE Q(j * j * j - 7 * j)

\* Queries that are not the sample coordinates: below, between and above
Queries ==
    {<<Q(-1)>>, <<<<1, 2>>, Q(5)>>, <<Q(-2), <<3, 2>>, Q(6), Q(1)>>, <<Q(3)>>,
     <<Q(0)>>}

LinearEx ==
    \E n \in 1..MaxLen, seed \in {1, 2}, mode \in {"last_slope", "last_value"},
       isInt \in BOOLEAN :
    \E xs \in [1..n -> XVals] :
        LET x0 == [j \in 1..n |-> Q(xs[j])]
            I0 == [j \in 1..n |-> IVal(seed, j)]
        IN  \E x \in Queries \cup {x0} :
                /\ pc = "idle"
                /\ op' = "linear_ex"
                /\ args' = [x0 |-> x0, I0 |-> I0, x |-> x, mode |-> mode,
                            isInt |-> isInt]
                /\ ret' = linear_ex(x0, I0, x, mode, isInt)
                /\ pc' = "done"
                /\ UNCHANGED loc

NextLin == LinearEx

SpecLin == Init /\ [][NextLin]_vars

StrictlyMonotonic(x0) ==
    \/ \A i \in 1..(Len(x0) - 1) : RGt(x0[i + 1], x0[i])
    \/ \A i \in 1..(Len(x0) - 1) : RLt(x0[i + 1], x0[i])

\* C7: linear_ex(x0, I0, x) with x equal to x0 returns I0 unchanged, for
\* every x0 that passes the monotonicity check (ascending or descending, of
\* length at least 2) and for both modes.
C7_IdentityAtSamples ==
    (/\ op = "linear_ex"
     /\ args.x = args.x0
     /\ Len(args.x0) >= 2
     /\ Monotonic(args.x0)) =>
        /\ ret.raised = ""
        /\ ret.val = args.I0

\* C7 as amended: the same for every x0 that is strictly ascending or
\* strictly descending.
C7_IdentityAtDistinctSamples ==
    (/\ op = "linear_ex"
     /\ args.x = args.x0
     /\ Len(args.x0) >= 2
     /\ StrictlyMonotonic(args.x0)) =>
        /\ ret.raised = ""
        /\ ret.val = args.I0

\* A call at the samples of a descending x0 of three coordinates, with values
\* on no line, in the mode last_slope
C7_Witness ==
    /\ op = "linear_ex"
    /\ args.x = args.x0
    /\ Len(args.x0) = 3
    /\ Descends(args.x0)
    /\ StrictlyMonotonic(args.x0)
    /\ args.mode = "last_slope"
    /\ args.I0[2] # Q(20)
    /\ ret.raised = ""
    /\ ret.val = args.I0

\* The sampled values at the least (greatest) coordinate of x0
ValuesAtMin(x0, I0) == {I0[j] : j \in {j \in DOMAIN x0 : x0[j] = RMin(Range(x0))}}

ValuesAtMax(x0, I0) == {I0[j] : j \in {j \in DOMAIN x0 : x0[j] = RMax(Range(x0))}}

\* C8: in the mode last_value every query below min(x0) gets the sampled
\* value at min(x0), every query above max(x0) the sampled value at max(x0),
\* for ascending and descending x0 and any mix of queries.
C8_LastValue ==
    (/\ op = "linear_ex"
     /\ args.mode = "last_value"
     /\ Monotonic(args.x0)) =>
        /\ ret.raised = ""
        /\ \A q \in DOMAIN args.x :
              /\ RLt(args.x[q], RMin(Range(args.x0))) =>
                    ret.val[q] \in ValuesAtMin(args.x0, args.I0)
              /\ RGt(args.x[q], RMax(Range(args.x0))) =>
                    ret.val[q] \in ValuesAtMax(args.x0, args.I0)

\* A call in the mode last_value on a descending x0 with queries below,
\* inside and above the samples
C8_Witness ==
    /\ op = "linear_ex"
    /\ args.mode = "last_value"
    /\ Descends(args.x0)
    /\ ret.raised = ""
    /\ \E q \in DOMAIN args.x : RLt(args.x[q], RMin(Range(args.x0)))
    /\ \E q \in DOMAIN args.x : RGt(args.x[q], RMax(Range(args.x0)))
    /\ \E q \in DOMAIN args.x :
          /\ RGt(args.x[q], RMin(Range(args.x0)))
          /\ RLt(args.x[q], RMax(Range(args.x0)))

-----------------------------------------------------------------------------
(* calc_prod as actions: the call, each pass of the loop, the return *)

MaxFac == 3

\* A detector basis of n detectors on n + 1 rates, of full column rank: b
\* on the diagonal, and for band = 1 ones below it
Basis(n, b, band) ==
    [k \in 1..(n + 1) |-> [d \in 1..n |->
        Q(IF k = d THEN b ELSE IF k = d + 1 THEN band ELSE 0)]]

\* Factor i: non-zero responses of both signs, positive deviations
Factor(i, ne, n, rs, ss) ==
    MkData([e \in 1..ne |-> [d \in 1..n |->
                Q((IF (i + d) % 2 = 0 THEN -1 ELSE 1) * (((i + e + d + rs) % 3) + 1))]],
           [e \in 1..ne |-> [d \in 1..n |-> Q(ss + d - 1)]],
           [e \in 1..ne |-> LabelNames[e]],
           None)

\* The factors stacked into one data object, with `extra` rows more
Stacked(facs, extra) ==
    MkData(ConcatAll([k \in DOMAIN facs |-> facs[k].R])
               \o [e \in 1..extra |-> facs[1].R[1]],
           ConcatAll([k \in DOMAIN facs |-> facs[k].R_std])
               \o [e \in 1..extra |-> facs[1].R_std[1]],
           ConcatAll([k \in DOMAIN facs |-> [e \in DOMAIN facs[k].label |->
                         LabelNames[k] \o facs[k].label[e]]])
               \o [e \in 1..extra |-> "x"],
           None)

\* calc_prod(data, r) on a list, calc_prod(data, r, nf) on stacked blocks,
\* up to line 505; calc_prod(data, r) on one data object returns None
CalcProdCall ==
    \E nfac \in 1..MaxFac, ne \in ExpCounts, n \in 1..MaxDet, b \in {1, 2},
       band \in {0, 1} :
    \E rs \in {0, 1}, ss \in {1, 2}, how \in {"list", "stacked", "no nf"},
       extra \in {0, 1} :
        LET facs == [i \in 1..nfac |-> Factor(i, ne, n, rs, ss)]
            data == IF how = "list" THEN facs ELSE Stacked(facs, extra)
            nf   == IF how = "stacked" THEN nfac ELSE 0
        IN  /\ pc = "idle"
            /\ how = "list" => extra = 0
            /\ band = 1 => b = 1
            /\ how = "no nf" => (nfac = 1 /\ extra = 0)
            /\ op' = "calc_prod"
            /\ args' = [data |-> data, r |-> Basis(n, b, band), nf |-> nf, how |-> how]
            /\ IF how = "no nf"
               THEN /\ ret' = Return(None)
                    /\ pc' = "done"
                    /\ loc' = loc
               ELSE /\ ret' = ret
                    /\ pc' = "loop"
                    /\ loc' = Prepared(data, Basis(n, b, band), nf)

\* One pass of the loop of line 508
CalcProdFold ==
    /\ pc = "loop"
    /\ Len(loc.R) > 0
    /\ loc' = Folded(loc)
    /\ UNCHANGED <<op, args, ret, pc>>

\* Lines 534-537
CalcProdReturn ==
    /\ pc = "loop"
    /\ Len(loc.R) = 0
    /\ ret' = Return(Finished(loc))
    /\ pc' = "done"
    /\ UNCHANGED <<op, args, loc>>

NextProd == CalcProdCall \/ CalcProdFold \/ CalcProdReturn

SpecProd == Init /\ [][NextProd]_vars

\* calc_prod has returned a data object
ProdReturned == op = "calc_prod" /\ pc = "done" /\ args.how # "no nf"

\* The experiment rows of one factor of the call
FactorRows ==
    IF args.how = "list" THEN Len(args.data[1].R) ELSE Len(args.data.R) \div args.nf

\* C9: calc_prod returns a Response Set with the experiment-row count of one
\* factor, in which R and R_std share their shape and label is as long as R
\* has rows, for a list and for one Response Set of nf stacked blocks.
C9_ProductIsResponseSet ==
    (/\ ProdReturned
     /\ args.how = "stacked" => Len(args.data.R) = args.nf * FactorRows) =>
        /\ ret.raised = ""
        /\ Len(ret.val.R) = FactorRows
        /\ Shape(ret.val.R_std) = Shape(ret.val.R)
        /\ Len(ret.val.label) = Len(ret.val.R)

\* What holds of C9 in the code: the same for a list, and for stacked blocks
\* but for the labels, which stay those of all the blocks.
C9_ProductRowsOfOneFactor ==
    ProdReturned =>
        /\ ret.raised = ""
        /\ Len(ret.val.R) = FactorRows
        /\ Shape(ret.val.R_std) = Shape(ret.val.R)
        /\ Len(ret.val.label) = IF args.how = "list" THEN Len(ret.val.R)
                                ELSE Len(args.data.label)

\* C10: in each pass, for every experiment and every entry f = a*b of the
\* outer product, a a response of the first factor and b one of the second as
\* they were before the pass, the variance handed to PR is
\* f^2 * (var(a)/a^2 + var(b)/b^2), at the place of f.
C10_VarianceOfProduct ==
    (op = "calc_prod" /\ pc \in {"loop", "done"} /\ args.how # "no nf"
        /\ loc.fold # None) =>
        LET fo == loc.fold
            n1 == Len(fo.R1[1])
        IN  \A e \in DOMAIN fo.p1p2 : \A p \in DOMAIN fo.p1p2[e] :
                LET i  == ((p - 1) % n1) + 1
                    j  == ((p - 1) \div n1) + 1
                    a  == fo.R1[e][i]
                    bb == fo.R2[e][j]
                    f  == fo.p1p2[e][p]
                IN  /\ f = RMul(a, bb)
                    /\ fo.p1p2_var[e][p] =
                          RMul(RMul(f, f),
                               RAdd(RDiv(fo.R1_var[e][i], RMul(a, a)),
                                    RDiv(fo.R2_var[e][j], RMul(bb, bb))))

=============================================================================
